---- MODULE Spec2Model ----
(***************************************************************************)
(* The bookmark organizer's backend: the in-memory store (MemStorage) and  *)
(* the REST handlers registered by registerRoutes, with the zod schemas of *)
(* shared/schema.ts on the write path.                                     *)
(***************************************************************************)
EXTENDS Integers, Sequences, FiniteSets, TLC

VARIABLES
    tabs,               \* MemStorage.tabs: Map<number, Tab>, in insertion order
    bookmarks,          \* MemStorage.bookmarks: Map<number, Bookmark>
    sections,           \* MemStorage.sections: Map<number, Section>
    settings,           \* MemStorage.settings
    tabIdCounter,       \* MemStorage.tabIdCounter
    bookmarkIdCounter,  \* MemStorage.bookmarkIdCounter
    sectionIdCounter,   \* MemStorage.sectionIdCounter
    last,               \* the request handled last, its response, the store before it
    created,            \* history: records created and neither updated nor deleted since
    deleted,            \* history: <<type, id>> deleted and not created since
    linked,             \* history: sections whose tabId named a stored tab when it was set
    ops,                \* number of write requests handled so far
    clients,            \* concurrent clients: the request of each and how far it got
    order,              \* the clients in the order the server called the store for them
    flow,               \* the page's add-tab flow: its position, request, toasts
    page,               \* Home: the active tab, its section and bookmark queries
    bar                 \* TabBar: the auto-switch state and the interval timers

vars == <<tabs, bookmarks, sections, settings, tabIdCounter, bookmarkIdCounter,
          sectionIdCounter, last, created, deleted, linked, ops, clients, order, flow,
          page, bar>>

\* Bound on the number of write requests (POST, PATCH, DELETE) of one run.
MaxOps == 2

\* Bound on the number of clients with a request under way at the same time.
MaxClients == 2

Clients == 1..MaxClients

\* Bound on the number of times the add-tab flow is started.
MaxFlows == 2

----------------------------------------------------------------------------
\* JSON values, tagged with their JavaScript type.

Str(s) == <<"string", s>>
Num(n) == <<"number", n>>
Bool(b) == <<"boolean", b>>
Null == <<"null", 0>>
NaN == <<"NaN", 0>>
\* The value undefined, object-shaped so that it compares with records.
undefined == [undefined |-> TRUE]
TypeOf(v) == v[1]

\* The empty object {}.
EmptyObject == [k \in {} |-> Null]

\* if (v) on a number or NaN: 0 and NaN are falsy.
Truthy(v) == TypeOf(v) = "number" /\ v[2] # 0

isNaN(v) == TypeOf(v) = "NaN"

\* A string of a request path or query, as its sequence of characters.
DigitValue ==
    [c \in {"0", "1", "2", "3", "4", "5", "6", "7", "8", "9"} |->
        CASE c = "0" -> 0 [] c = "1" -> 1 [] c = "2" -> 2 [] c = "3" -> 3
          [] c = "4" -> 4 [] c = "5" -> 5 [] c = "6" -> 6 [] c = "7" -> 7
          [] c = "8" -> 8 [] c = "9" -> 9]

IsDigit(c) == c \in DOMAIN DigitValue

\* The value of the longest prefix of digits of str, after the digits in acc.
RECURSIVE parseDigits(_, _)
parseDigits(str, acc) ==
    IF str = <<>> \/ ~IsDigit(Head(str)) THEN acc
    ELSE parseDigits(Tail(str), 10 * acc + DigitValue[Head(str)])

\* parseInt(str): an optional sign and the leading digits; NaN without a digit.
parseInt(str) ==
    LET negative == str # <<>> /\ Head(str) = "-"
        digits == IF str # <<>> /\ Head(str) \in {"-", "+"} THEN Tail(str) ELSE str
    IN  IF digits = <<>> \/ ~IsDigit(Head(digits)) THEN NaN
        ELSE Num(IF negative THEN 0 - parseDigits(digits, 0) ELSE parseDigits(digits, 0))

\* Object spread { ...a, ...b }: the keys of both, b's value where both have one.
Spread(a, b) ==
    [k \in DOMAIN a \cup DOMAIN b |-> IF k \in DOMAIN b THEN b[k] ELSE a[k]]

----------------------------------------------------------------------------
\* Map<number, T>: a sequence of entries in insertion order.

MapKeys(m) == {m[i].key : i \in 1..Len(m)}

MapHas(m, k) == k \in MapKeys(m)

MapGet(m, k) ==
    IF MapHas(m, k)
    THEN m[CHOOSE i \in 1..Len(m) : m[i].key = k].value
    ELSE undefined

\* Map.prototype.set: an existing key keeps its position, a new key goes last.
MapSet(m, k, v) ==
    IF MapHas(m, k)
    THEN [i \in 1..Len(m) |-> IF m[i].key = k THEN [key |-> k, value |-> v] ELSE m[i]]
    ELSE Append(m, [key |-> k, value |-> v])

IsNotKey(e, k) == e.key # k

\* Map.prototype.delete: the map without the key.
MapDelete(m, k) ==
    LET keep(e) == IsNotKey(e, k) IN SelectSeq(m, keep)

\* Array.from(map.values())
MapValues(m) == [i \in 1..Len(m) |-> m[i].value]

----------------------------------------------------------------------------
\* Array helpers.

\* A faulty compareOrder: the operands swapped, a descending sort.
compareOrderDescending(a, b) == b.order[2] - a.order[2]

\* The comparator (a, b) => a.order - b.order
compareOrder(a, b) == a.order[2] - b.order[2]

RECURSIVE insertSorted(_, _)
insertSorted(arr, x) ==
    IF arr = <<>> THEN <<x>>
    ELSE IF compareOrder(Head(arr), x) <= 0
         THEN <<Head(arr)>> \o insertSorted(Tail(arr), x)
         ELSE <<x>> \o arr

\* Array.prototype.sort with compareOrder: a stable sort.
RECURSIVE sortByOrder(_)
sortByOrder(arr) ==
    IF arr = <<>> THEN <<>>
    ELSE insertSorted(sortByOrder(SubSeq(arr, 1, Len(arr) - 1)), arr[Len(arr)])

HasTabId(r, tabId) == r.tabId = Num(tabId)

\* .filter(x => x.tabId === tabId)
filterByTab(arr, tabId) ==
    LET keep(r) == HasTabId(r, tabId) IN SelectSeq(arr, keep)

----------------------------------------------------------------------------
\* shared/schema.ts: the insert schemas drizzle-zod derives from the tables.
\* A notNull column without default is required; a column with a default is
\* optional; a nullable column is optional and accepts null.

Required(type) == [type |-> type, optional |-> FALSE, nullable |-> FALSE]
Optional(type) == [type |-> type, optional |-> TRUE, nullable |-> FALSE]
Nullable(type) == [type |-> type, optional |-> TRUE, nullable |-> TRUE]

insertTabSchema ==
    [name |-> Required("string"), order |-> Required("number"),
     backgroundImage |-> Nullable("string"), autoSwitch |-> Nullable("boolean")]

insertBookmarkSchema ==
    [tabId |-> Required("number"), url |-> Required("string"),
     title |-> Required("string"), favicon |-> Nullable("string"),
     sectionName |-> Required("string"), order |-> Required("number")]

insertSectionSchema ==
    [tabId |-> Required("number"), name |-> Required("string"),
     color |-> Required("string"), order |-> Required("number")]

insertSettingsSchema ==
    [theme |-> Optional("string"), autoRun |-> Optional("boolean")]

\* schema.partial(): every key optional.
partial(schema) ==
    [k \in DOMAIN schema |-> [schema[k] EXCEPT !.optional = TRUE]]

\* One key of a body against its schema entry.
fieldOk(entry, body, k) ==
    IF k \in DOMAIN body
    THEN \/ TypeOf(body[k]) = entry.type
         \/ entry.nullable /\ TypeOf(body[k]) = "null"
    ELSE entry.optional

\* schema.parse(body) does not throw a ZodError.
parseOk(schema, body) == \A k \in DOMAIN schema : fieldOk(schema[k], body, k)

\* A faulty parse: unknown keys are passed through.
parsePassthrough(schema, body) == body

\* The value schema.parse(body) returns: unknown keys are stripped.
parse(schema, body) == [k \in DOMAIN body \cap DOMAIN schema |-> body[k]]

----------------------------------------------------------------------------
\* server/storage.ts: MemStorage. A store value s holds the object's fields;
\* a method yields the store after the call (s) and the returned value (ret).

Store ==
    [tabs |-> tabs, bookmarks |-> bookmarks, sections |-> sections,
     settings |-> settings, tabIdCounter |-> tabIdCounter,
     bookmarkIdCounter |-> bookmarkIdCounter, sectionIdCounter |-> sectionIdCounter]

defaultTabs ==
    << [id |-> Num(1), name |-> Str("Cartoons"), order |-> Num(1)],
       [id |-> Num(2), name |-> Str("Animation"), order |-> Num(2)],
       [id |-> Num(3), name |-> Str("Editing"), order |-> Num(3)],
       [id |-> Num(4), name |-> Str("Color Grading"), order |-> Num(4)] >>

defaultSections ==
    << [id |-> Num(1), tabId |-> Num(1), name |-> Str("Featured Bookmarks"),
        color |-> Str("#FF6B35"), order |-> Num(1)],
       [id |-> Num(2), tabId |-> Num(2), name |-> Str("Animation Resources"),
        color |-> Str("#4ECDC4"), order |-> Num(1)],
       [id |-> Num(3), tabId |-> Num(3), name |-> Str("Editing Tools"),
        color |-> Str("#FFD166"), order |-> Num(1)],
       [id |-> Num(4), tabId |-> Num(4), name |-> Str("Color Grading Tools"),
        color |-> Str("#6BBA75"), order |-> Num(1)] >>

defaultBookmarks ==
    << [id |-> Num(1), tabId |-> Num(1), url |-> Str("https://www.google.com"),
        title |-> Str("Google"), favicon |-> Str("https://www.google.com/favicon.ico"),
        sectionName |-> Str("Featured Bookmarks"), order |-> Num(1)],
       [id |-> Num(2), tabId |-> Num(1), url |-> Str("https://www.youtube.com"),
        title |-> Str("YouTube"), favicon |-> Str("https://www.youtube.com/favicon.ico"),
        sectionName |-> Str("Featured Bookmarks"), order |-> Num(2)],
       [id |-> Num(3), tabId |-> Num(1), url |-> Str("https://github.com/dashboard"),
        title |-> Str("GitHub"), favicon |-> Str("https://github.com/favicon.ico"),
        sectionName |-> Str("Featured Bookmarks"), order |-> Num(3)],
       [id |-> Num(4), tabId |-> Num(1), url |-> Str("https://chat.openai.com"),
        title |-> Str("ChatGPT"), favicon |-> Str("https://chat.openai.com/favicon.ico"),
        sectionName |-> Str("Featured Bookmarks"), order |-> Num(4)] >>

\* forEach(r => map.set(r.id, r)) on an empty map.
RECURSIVE setAll(_, _)
setAll(m, arr) ==
    IF arr = <<>> THEN m
    ELSE setAll(MapSet(m, Head(arr).id[2], Head(arr)), Tail(arr))

\* The store the constructor leaves.
constructor ==
    [tabs |-> setAll(<<>>, defaultTabs),
     bookmarks |-> setAll(<<>>, defaultBookmarks),
     sections |-> setAll(<<>>, defaultSections),
     settings |-> [id |-> Num(1), theme |-> Str("system"), autoRun |-> Bool(FALSE)],
     tabIdCounter |-> 1 + Len(defaultTabs),
     bookmarkIdCounter |-> 1 + Len(defaultBookmarks),
     sectionIdCounter |-> 1 + Len(defaultSections)]

\* forEach(r => map.delete(r.id))
RECURSIVE deleteAll(_, _)
deleteAll(m, arr) ==
    IF arr = <<>> THEN m
    ELSE deleteAll(MapDelete(m, Head(arr).id[2]), Tail(arr))

getTabs(s) == sortByOrder(MapValues(s.tabs))

getTab(s, id) == MapGet(s.tabs, id)

\* A faulty createTab: the counter is read and not incremented.
createTabKeepsCounter(s, tab) ==
    LET id == s.tabIdCounter
        newTab == Spread(tab, [id |-> Num(id)])
    IN  [s |-> [s EXCEPT !.tabs = MapSet(s.tabs, id, newTab)], ret |-> newTab]

createTab(s, tab) ==
    LET id == s.tabIdCounter
        newTab == Spread(tab, [id |-> Num(id)])
    IN  [s |-> [s EXCEPT !.tabIdCounter = id + 1, !.tabs = MapSet(s.tabs, id, newTab)],
         ret |-> newTab]

\* A faulty updateTab: the stored fields are spread over the given ones.
updateTabKeepsExisting(s, id, tab) ==
    LET existingTab == MapGet(s.tabs, id)
        updatedTab == Spread(tab, existingTab)
    IN  IF existingTab = undefined THEN [s |-> s, ret |-> undefined]
        ELSE [s |-> [s EXCEPT !.tabs = MapSet(s.tabs, id, updatedTab)], ret |-> updatedTab]

\* A faulty updateTab: a missing tab is made from the partial input.
updateTabUpserts(s, id, tab) ==
    LET existingTab == MapGet(s.tabs, id)
        updatedTab == IF existingTab = undefined
                      THEN Spread([id |-> Num(id)], tab)
                      ELSE Spread(existingTab, tab)
    IN  [s |-> [s EXCEPT !.tabs = MapSet(s.tabs, id, updatedTab)], ret |-> updatedTab]

updateTab(s, id, tab) ==
    LET existingTab == MapGet(s.tabs, id)
        updatedTab == Spread(existingTab, tab)
    IN  IF existingTab = undefined
        THEN [s |-> s, ret |-> undefined]
        ELSE [s |-> [s EXCEPT !.tabs = MapSet(s.tabs, id, updatedTab)],
              ret |-> updatedTab]

\* A faulty deleteTab: the bookmark with the tab's id goes, not the bookmarks
\* with it as tabId.
deleteTabFiltersById(s, id) ==
    [s |-> [s EXCEPT
              !.bookmarks = MapDelete(s.bookmarks, id),
              !.sections = deleteAll(s.sections, filterByTab(MapValues(s.sections), id)),
              !.tabs = MapDelete(s.tabs, id)],
     ret |-> MapHas(s.tabs, id)]

\* A faulty deleteTab: the bookmarks of the tab are left in the store.
deleteTabKeepsBookmarks(s, id) ==
    [s |-> [s EXCEPT
              !.sections = deleteAll(s.sections, filterByTab(MapValues(s.sections), id)),
              !.tabs = MapDelete(s.tabs, id)],
     ret |-> MapHas(s.tabs, id)]

\* A faulty deleteTab: the sections of the tab are left in the store.
deleteTabKeepsSections(s, id) ==
    [s |-> [s EXCEPT
              !.bookmarks = deleteAll(s.bookmarks, filterByTab(MapValues(s.bookmarks), id)),
              !.tabs = MapDelete(s.tabs, id)],
     ret |-> MapHas(s.tabs, id)]

deleteTab(s, id) ==
    [s |-> [s EXCEPT
              !.bookmarks = deleteAll(s.bookmarks, filterByTab(MapValues(s.bookmarks), id)),
              !.sections = deleteAll(s.sections, filterByTab(MapValues(s.sections), id)),
              !.tabs = MapDelete(s.tabs, id)],
     ret |-> MapHas(s.tabs, id)]

getBookmarks(s) == MapValues(s.bookmarks)

getBookmarksByTab(s, tabId) == sortByOrder(filterByTab(MapValues(s.bookmarks), tabId))

getBookmark(s, id) == MapGet(s.bookmarks, id)

\* A faulty createBookmark: the counter is read and not advanced.
createBookmarkReusesId(s, bookmark) ==
    LET id == s.bookmarkIdCounter
        newBookmark == Spread(bookmark, [id |-> Num(id)])
    IN  [s |-> [s EXCEPT !.bookmarks = MapSet(s.bookmarks, id, newBookmark)],
         ret |-> newBookmark]

createBookmark(s, bookmark) ==
    LET id == s.bookmarkIdCounter
        newBookmark == Spread(bookmark, [id |-> Num(id)])
    IN  [s |-> [s EXCEPT !.bookmarkIdCounter = id + 1,
                         !.bookmarks = MapSet(s.bookmarks, id, newBookmark)],
         ret |-> newBookmark]

\* A faulty updateBookmark: the partial input replaces the record.
updateBookmarkReplaces(s, id, bookmark) ==
    LET existingBookmark == MapGet(s.bookmarks, id)
        updatedBookmark == Spread([id |-> existingBookmark.id], bookmark)
    IN  IF existingBookmark = undefined
        THEN [s |-> s, ret |-> undefined]
        ELSE [s |-> [s EXCEPT !.bookmarks = MapSet(s.bookmarks, id, updatedBookmark)],
              ret |-> updatedBookmark]

updateBookmark(s, id, bookmark) ==
    LET existingBookmark == MapGet(s.bookmarks, id)
        updatedBookmark == Spread(existingBookmark, bookmark)
    IN  IF existingBookmark = undefined
        THEN [s |-> s, ret |-> undefined]
        ELSE [s |-> [s EXCEPT !.bookmarks = MapSet(s.bookmarks, id, updatedBookmark)],
              ret |-> updatedBookmark]

deleteBookmark(s, id) ==
    [s |-> [s EXCEPT !.bookmarks = MapDelete(s.bookmarks, id)],
     ret |-> MapHas(s.bookmarks, id)]

getSections(s) == MapValues(s.sections)

getSectionsByTab(s, tabId) == sortByOrder(filterByTab(MapValues(s.sections), tabId))

getSection(s, id) == MapGet(s.sections, id)

\* A faulty createSection: the id is the number of sections plus one.
createSectionIdFromSize(s, section) ==
    LET id == Len(s.sections) + 1
        newSection == Spread(section, [id |-> Num(id)])
    IN  [s |-> [s EXCEPT !.sections = MapSet(s.sections, id, newSection)],
         ret |-> newSection]

createSection(s, section) ==
    LET id == s.sectionIdCounter
        newSection == Spread(section, [id |-> Num(id)])
    IN  [s |-> [s EXCEPT !.sectionIdCounter = id + 1,
                         !.sections = MapSet(s.sections, id, newSection)],
         ret |-> newSection]

updateSection(s, id, section) ==
    LET existingSection == MapGet(s.sections, id)
        updatedSection == Spread(existingSection, section)
    IN  IF existingSection = undefined
        THEN [s |-> s, ret |-> undefined]
        ELSE [s |-> [s EXCEPT !.sections = MapSet(s.sections, id, updatedSection)],
              ret |-> updatedSection]

\* A faulty deleteSection: success is reported whatever the map held.
deleteSectionAlwaysTrue(s, id) ==
    [s |-> [s EXCEPT !.sections = MapDelete(s.sections, id)], ret |-> TRUE]

deleteSection(s, id) ==
    [s |-> [s EXCEPT !.sections = MapDelete(s.sections, id)],
     ret |-> MapHas(s.sections, id)]

getSettings(s) == s.settings

updateSettings(s, settingsUpdate) ==
    LET updated == Spread(s.settings, settingsUpdate)
    IN  [s |-> [s EXCEPT !.settings = updated], ret |-> updated]

----------------------------------------------------------------------------
\* server/routes.ts: the handlers. A handler yields the store after the
\* request (s) and the response (status, body); the ZodError details of a
\* 400 body are left out.

Reply(s, status, body) == [s |-> s, status |-> status, body |-> body]

Message(text) == [message |-> Str(text)]

\* res.json(arr) of an array, object-shaped so that it compares with objects.
JsonArray(arr) == [array |-> arr]

handleGetTabs(s) == Reply(s, 200, JsonArray(getTabs(s)))

handleGetTab(s, params) ==
    LET id == parseInt(params.id)
        tab == getTab(s, id[2])
    IN  IF isNaN(id) THEN Reply(s, 400, Message("Invalid ID format"))
        ELSE IF tab = undefined THEN Reply(s, 404, Message("Tab not found"))
        ELSE Reply(s, 200, tab)

handlePostTab(s, body) ==
    LET tab == createTab(s, parse(insertTabSchema, body))
    IN  IF ~parseOk(insertTabSchema, body) THEN Reply(s, 400, Message("Invalid tab data"))
        ELSE Reply(tab.s, 201, tab.ret)

handlePatchTab(s, params, body) ==
    LET id == parseInt(params.id)
        tab == updateTab(s, id[2], parse(partial(insertTabSchema), body))
    IN  IF isNaN(id) THEN Reply(s, 400, Message("Invalid ID format"))
        ELSE IF ~parseOk(partial(insertTabSchema), body)
        THEN Reply(s, 400, Message("Invalid tab data"))
        ELSE IF tab.ret = undefined THEN Reply(tab.s, 404, Message("Tab not found"))
        ELSE Reply(tab.s, 200, tab.ret)

handleDeleteTab(s, params) ==
    LET id == parseInt(params.id)
        success == deleteTab(s, id[2])
    IN  IF isNaN(id) THEN Reply(s, 400, Message("Invalid ID format"))
        ELSE IF ~success.ret THEN Reply(success.s, 404, Message("Tab not found"))
        ELSE Reply(success.s, 204, undefined)

handleGetBookmarks(s, query) ==
    LET given == "tabId" \in DOMAIN query /\ query.tabId # <<>>
        tabId == parseInt(query.tabId)
    IN  IF given /\ Truthy(tabId)
        THEN IF isNaN(tabId) THEN Reply(s, 400, Message("Invalid tabId format"))
             ELSE Reply(s, 200, JsonArray(getBookmarksByTab(s, tabId[2])))
        ELSE Reply(s, 200, JsonArray(getBookmarks(s)))

handleGetBookmark(s, params) ==
    LET id == parseInt(params.id)
        bookmark == getBookmark(s, id[2])
    IN  IF isNaN(id) THEN Reply(s, 400, Message("Invalid ID format"))
        ELSE IF bookmark = undefined THEN Reply(s, 404, Message("Bookmark not found"))
        ELSE Reply(s, 200, bookmark)

\* A faulty handlePostBookmark: a sectionName that no section of the tab has
\* is answered 400.
handlePostBookmarkChecksSection(s, body) ==
    LET bookmark == createBookmark(s, parse(insertBookmarkSchema, body))
        known == \E i \in 1..Len(s.sections) :
                     /\ s.sections[i].value.tabId = body.tabId
                     /\ s.sections[i].value.name = body.sectionName
    IN  IF ~parseOk(insertBookmarkSchema, body) \/ ~known
        THEN Reply(s, 400, Message("Invalid bookmark data"))
        ELSE Reply(bookmark.s, 201, bookmark.ret)

handlePostBookmark(s, body) ==
    LET bookmark == createBookmark(s, parse(insertBookmarkSchema, body))
    IN  IF ~parseOk(insertBookmarkSchema, body)
        THEN Reply(s, 400, Message("Invalid bookmark data"))
        ELSE Reply(bookmark.s, 201, bookmark.ret)

handlePatchBookmark(s, params, body) ==
    LET id == parseInt(params.id)
        bookmark == updateBookmark(s, id[2], parse(partial(insertBookmarkSchema), body))
    IN  IF isNaN(id) THEN Reply(s, 400, Message("Invalid ID format"))
        ELSE IF ~parseOk(partial(insertBookmarkSchema), body)
        THEN Reply(s, 400, Message("Invalid bookmark data"))
        ELSE IF bookmark.ret = undefined
        THEN Reply(bookmark.s, 404, Message("Bookmark not found"))
        ELSE Reply(bookmark.s, 200, bookmark.ret)

handleDeleteBookmark(s, params) ==
    LET id == parseInt(params.id)
        success == deleteBookmark(s, id[2])
    IN  IF isNaN(id) THEN Reply(s, 400, Message("Invalid ID format"))
        ELSE IF ~success.ret THEN Reply(success.s, 404, Message("Bookmark not found"))
        ELSE Reply(success.s, 204, undefined)

handleGetSections(s, query) ==
    LET given == "tabId" \in DOMAIN query /\ query.tabId # <<>>
        tabId == parseInt(query.tabId)
    IN  IF given /\ Truthy(tabId)
        THEN IF isNaN(tabId) THEN Reply(s, 400, Message("Invalid tabId format"))
             ELSE Reply(s, 200, JsonArray(getSectionsByTab(s, tabId[2])))
        ELSE Reply(s, 200, JsonArray(getSections(s)))

handleGetSection(s, params) ==
    LET id == parseInt(params.id)
        section == getSection(s, id[2])
    IN  IF isNaN(id) THEN Reply(s, 400, Message("Invalid ID format"))
        ELSE IF section = undefined THEN Reply(s, 404, Message("Section not found"))
        ELSE Reply(s, 200, section)

handlePostSection(s, body) ==
    LET section == createSection(s, parse(insertSectionSchema, body))
    IN  IF ~parseOk(insertSectionSchema, body)
        THEN Reply(s, 400, Message("Invalid section data"))
        ELSE Reply(section.s, 201, section.ret)

handlePatchSection(s, params, body) ==
    LET id == parseInt(params.id)
        section == updateSection(s, id[2], parse(partial(insertSectionSchema), body))
    IN  IF isNaN(id) THEN Reply(s, 400, Message("Invalid ID format"))
        ELSE IF ~parseOk(partial(insertSectionSchema), body)
        THEN Reply(s, 400, Message("Invalid section data"))
        ELSE IF section.ret = undefined
        THEN Reply(section.s, 404, Message("Section not found"))
        ELSE Reply(section.s, 200, section.ret)

handleDeleteSection(s, params) ==
    LET id == parseInt(params.id)
        success == deleteSection(s, id[2])
    IN  IF isNaN(id) THEN Reply(s, 400, Message("Invalid ID format"))
        ELSE IF ~success.ret THEN Reply(success.s, 404, Message("Section not found"))
        ELSE Reply(success.s, 204, undefined)

handleGetSettings(s) == Reply(s, 200, getSettings(s))

\* storage.updateSettings(req.body): the body goes to the store as it came.
handlePatchSettings(s, body) ==
    LET updated == updateSettings(s, body)
    IN  Reply(updated.s, 200, updated.ret)

----------------------------------------------------------------------------
\* The requests of a run.

\* The :id of a path: a seeded id, the first id a create assigns, not a number.
IdParams == {<<"1">>, <<"5">>, <<"x">>}

\* The query of a list request: no tabId, a seeded tab, 0, not a number.
Queries == {EmptyObject, [tabId |-> <<"1">>], [tabId |-> <<"0">>], [tabId |-> <<"x">>]}

\* POST /api/tabs bodies: the required keys; every key and an unknown one; no order.
TabBodies ==
    { [name |-> Str("News"), order |-> Num(2)],
      [name |-> Str("Music"), order |-> Num(0), backgroundImage |-> Null,
       autoSwitch |-> Bool(TRUE), id |-> Num(1)],
      [name |-> Str("Broken")] }

\* PATCH /api/tabs/:id bodies: one key; a key and an unknown one; a string order.
TabPatches ==
    { [order |-> Num(5)],
      [name |-> Str("Renamed"), id |-> Num(2)],
      [order |-> Str("first")] }

BookmarkBodies ==
    { [tabId |-> Num(1), url |-> Str("https://example.org"), title |-> Str("Example"),
       sectionName |-> Str("Featured Bookmarks"), order |-> Num(2)],
      [tabId |-> Num(5), url |-> Str("https://example.com"), title |-> Str("Other"),
       favicon |-> Null, sectionName |-> Str("Nowhere"), order |-> Num(0)],
      [tabId |-> Str("1"), url |-> Str("https://example.org"), title |-> Str("Example"),
       sectionName |-> Str("Featured Bookmarks"), order |-> Num(2)] }

\* PATCH /api/bookmarks/:id bodies: an order and a section name no section
\* has; another tab, with an unknown key; a null order.
BookmarkPatches ==
    { [order |-> Num(0), sectionName |-> Str("Nowhere")],
      [tabId |-> Num(5), title |-> Str("Renamed"), id |-> Num(2)],
      [order |-> Null] }

SectionBodies ==
    { [tabId |-> Num(1), name |-> Str("New Section"), color |-> Str("#4ECDC4"),
       order |-> Num(0)],
      [tabId |-> Num(5), name |-> Str("Stray"), color |-> Str("#FFD166"),
       order |-> Num(1)],
      [tabId |-> Num(1), name |-> Str("No color"), order |-> Num(1)] }

SectionPatches ==
    { [name |-> Str("Renamed"), id |-> Num(2)],
      [tabId |-> Num(5), order |-> Num(3)],
      [color |-> Num(0)] }

\* PATCH /api/settings bodies: a theme; another string and autoRun; a number.
SettingsBodies ==
    { [theme |-> Str("dark")],
      [theme |-> Str("purple"), autoRun |-> Bool(TRUE)],
      [theme |-> Num(42)] }

----------------------------------------------------------------------------
\* History kept beside the store.

\* The ids of the records of map m whose tabId is tabId.
IdsOfTab(m, tabId) ==
    {m[i].key : i \in {j \in 1..Len(m) : m[j].value.tabId = Num(tabId)}}

Request(method, path, params, query, body) ==
    [method |-> method, path |-> path, params |-> params, query |-> query, body |-> body]

\* The store takes the handler's result r, and last records the exchange.
Handled(req, r) ==
    /\ tabs' = r.s.tabs
    /\ bookmarks' = r.s.bookmarks
    /\ sections' = r.s.sections
    /\ settings' = r.s.settings
    /\ tabIdCounter' = r.s.tabIdCounter
    /\ bookmarkIdCounter' = r.s.bookmarkIdCounter
    /\ sectionIdCounter' = r.s.sectionIdCounter
    /\ last' = [req |-> req, status |-> r.status, body |-> r.body,
                pre |-> Store, preDeleted |-> deleted]
    /\ UNCHANGED <<clients, order, flow, page, bar>>

\* A read request: the history stays.
Read(req, r) ==
    /\ Handled(req, r)
    /\ UNCHANGED <<created, deleted, linked, ops>>

\* A client with no request under way.
Idle == [pc |-> "idle"]

\* The page before the add-tab flow is started: the tabs query holds the list
\* the server gave when the page loaded.
FlowIdle ==
    [pc |-> "idle", via |-> "", net |-> "none", req |-> undefined, res |-> undefined,
     newTab |-> undefined, toasts |-> <<>>, before |-> <<>>,
     tabs |-> getTabs(constructor), stale |-> FALSE, runs |-> 0]

\* A create answered 201 starts the history of the new id.
Created(type, r, data) ==
    /\ created' = IF r.status = 201
                  THEN created \cup {[type |-> type, id |-> r.body.id[2], data |-> data]}
                  ELSE created
    /\ deleted' = IF r.status = 201 THEN deleted \ {<<type, r.body.id[2]>>} ELSE deleted

\* An update answered 200 ends the create history of the id.
Updated(type, req, r) ==
    /\ created' = IF r.status = 200
                  THEN {c \in created : ~(c.type = type /\ Num(c.id) = parseInt(req.params.id))}
                  ELSE created
    /\ deleted' = deleted

\* A delete answered 204 ends the create history of the id.
Deleted(type, req, r) ==
    LET id == parseInt(req.params.id)[2]
    IN  /\ created' = IF r.status = 204
                      THEN {c \in created : ~(c.type = type /\ c.id = id)}
                      ELSE created
        /\ deleted' = IF r.status = 204 THEN deleted \cup {<<type, id>>} ELSE deleted

\* Home once its queries have loaded: tab 1 is active, the search box is empty.
PageLoaded ==
    [activeTabId |-> 1, searchQuery |-> "",
     sections |-> getSectionsByTab(constructor, 1),
     sectionsLoading |-> FALSE, sectionsStale |-> FALSE,
     bookmarks |-> getBookmarksByTab(constructor, 1),
     bookmarksLoading |-> FALSE, bookmarksStale |-> FALSE,
     did |-> [op |-> "none"], ops |-> 0]

\* TabBar once mounted: auto-switch is off, the effect has set no timer.
BarMounted ==
    [tabs |-> getTabs(constructor), autoSwitchEnabled |-> FALSE,
     autoSwitchTimerRef |-> {}, timers |-> {},
     ticked |-> [fired |-> FALSE, before |-> 0], ticks |-> 0, seen |-> {}]

Init ==
    /\ tabs = constructor.tabs
    /\ bookmarks = constructor.bookmarks
    /\ sections = constructor.sections
    /\ settings = constructor.settings
    /\ tabIdCounter = constructor.tabIdCounter
    /\ bookmarkIdCounter = constructor.bookmarkIdCounter
    /\ sectionIdCounter = constructor.sectionIdCounter
    /\ last = [req |-> Request("NONE", "", EmptyObject, EmptyObject, EmptyObject),
               status |-> 0, body |-> undefined,
               pre |-> constructor, preDeleted |-> {}]
    /\ created = {}
    /\ deleted = {}
    /\ linked = {constructor.sections[i].key : i \in
                   {j \in 1..Len(constructor.sections) :
                      MapHas(constructor.tabs, constructor.sections[j].value.tabId[2])}}
    /\ ops = 0
    /\ clients = [c \in Clients |-> Idle]
    /\ flow = FlowIdle
    /\ page = PageLoaded
    /\ bar = BarMounted
    /\ order = <<>>

----------------------------------------------------------------------------
\* One action per route.

GetTabs ==
    Read(Request("GET", "/tabs", EmptyObject, EmptyObject, EmptyObject),
         handleGetTabs(Store))

GetTab ==
    \E p \in IdParams :
        Read(Request("GET", "/tabs/:id", [id |-> p], EmptyObject, EmptyObject),
             handleGetTab(Store, [id |-> p]))

PostTab ==
    \E body \in TabBodies :
        LET r == handlePostTab(Store, body)
        IN  /\ ops < MaxOps
            /\ Handled(Request("POST", "/tabs", EmptyObject, EmptyObject, body), r)
            /\ Created("tabs", r, parse(insertTabSchema, body))
            /\ ops' = ops + 1
            /\ UNCHANGED linked

PatchTab ==
    \E p \in IdParams, body \in TabPatches :
        LET req == Request("PATCH", "/tabs/:id", [id |-> p], EmptyObject, body)
            r == handlePatchTab(Store, req.params, body)
        IN  /\ ops < MaxOps
            /\ Handled(req, r)
            /\ Updated("tabs", req, r)
            /\ ops' = ops + 1
            /\ UNCHANGED linked

\* The bookmarks and sections of the tab go with it, whatever the answer.
DeleteTab ==
    \E p \in IdParams :
        LET req == Request("DELETE", "/tabs/:id", [id |-> p], EmptyObject, EmptyObject)
            r == handleDeleteTab(Store, req.params)
            id == parseInt(p)
            gone == IF isNaN(id) THEN {}
                    ELSE {<<"bookmarks", b>> : b \in IdsOfTab(bookmarks, id[2])}
                         \cup {<<"sections", x>> : x \in IdsOfTab(sections, id[2])}
                         \cup (IF r.status = 204 THEN {<<"tabs", id[2]>>} ELSE {})
        IN  /\ ops < MaxOps
            /\ Handled(req, r)
            /\ created' = {c \in created : <<c.type, c.id>> \notin gone}
            /\ deleted' = deleted \cup gone
            /\ ops' = ops + 1
            /\ UNCHANGED linked

GetBookmarks ==
    \E query \in Queries :
        Read(Request("GET", "/bookmarks", EmptyObject, query, EmptyObject),
             handleGetBookmarks(Store, query))

GetBookmark ==
    \E p \in IdParams :
        Read(Request("GET", "/bookmarks/:id", [id |-> p], EmptyObject, EmptyObject),
             handleGetBookmark(Store, [id |-> p]))

PostBookmark ==
    \E body \in BookmarkBodies :
        LET r == handlePostBookmark(Store, body)
        IN  /\ ops < MaxOps
            /\ Handled(Request("POST", "/bookmarks", EmptyObject, EmptyObject, body), r)
            /\ Created("bookmarks", r, parse(insertBookmarkSchema, body))
            /\ ops' = ops + 1
            /\ UNCHANGED linked

PatchBookmark ==
    \E p \in IdParams, body \in BookmarkPatches :
        LET req == Request("PATCH", "/bookmarks/:id", [id |-> p], EmptyObject, body)
            r == handlePatchBookmark(Store, req.params, body)
        IN  /\ ops < MaxOps
            /\ Handled(req, r)
            /\ Updated("bookmarks", req, r)
            /\ ops' = ops + 1
            /\ UNCHANGED linked

DeleteBookmark ==
    \E p \in IdParams :
        LET req == Request("DELETE", "/bookmarks/:id", [id |-> p], EmptyObject, EmptyObject)
            r == handleDeleteBookmark(Store, req.params)
        IN  /\ ops < MaxOps
            /\ Handled(req, r)
            /\ Deleted("bookmarks", req, r)
            /\ ops' = ops + 1
            /\ UNCHANGED linked

GetSections ==
    \E query \in Queries :
        Read(Request("GET", "/sections", EmptyObject, query, EmptyObject),
             handleGetSections(Store, query))

GetSection ==
    \E p \in IdParams :
        Read(Request("GET", "/sections/:id", [id |-> p], EmptyObject, EmptyObject),
             handleGetSection(Store, [id |-> p]))

\* linked takes the new section when its tabId names a stored tab.
PostSection ==
    \E body \in SectionBodies :
        LET r == handlePostSection(Store, body)
        IN  /\ ops < MaxOps
            /\ Handled(Request("POST", "/sections", EmptyObject, EmptyObject, body), r)
            /\ Created("sections", r, parse(insertSectionSchema, body))
            /\ linked' = IF r.status = 201 /\ MapHas(tabs, r.body.tabId[2])
                         THEN linked \cup {r.body.id[2]}
                         ELSE linked
            /\ ops' = ops + 1

\* linked follows an update that sets tabId.
PatchSection ==
    \E p \in IdParams, body \in SectionPatches :
        LET req == Request("PATCH", "/sections/:id", [id |-> p], EmptyObject, body)
            r == handlePatchSection(Store, req.params, body)
        IN  /\ ops < MaxOps
            /\ Handled(req, r)
            /\ Updated("sections", req, r)
            /\ linked' = IF r.status = 200 /\ "tabId" \in DOMAIN body
                         THEN IF MapHas(tabs, body.tabId[2])
                              THEN linked \cup {r.body.id[2]}
                              ELSE linked \ {r.body.id[2]}
                         ELSE linked
            /\ ops' = ops + 1

DeleteSection ==
    \E p \in IdParams :
        LET req == Request("DELETE", "/sections/:id", [id |-> p], EmptyObject, EmptyObject)
            r == handleDeleteSection(Store, req.params)
        IN  /\ ops < MaxOps
            /\ Handled(req, r)
            /\ Deleted("sections", req, r)
            /\ ops' = ops + 1
            /\ UNCHANGED linked

GetSettings ==
    Read(Request("GET", "/settings", EmptyObject, EmptyObject, EmptyObject),
         handleGetSettings(Store))

PatchSettings ==
    \E body \in SettingsBodies :
        /\ ops < MaxOps
        /\ Handled(Request("PATCH", "/settings", EmptyObject, EmptyObject, body),
                   handlePatchSettings(Store, body))
        /\ ops' = ops + 1
        /\ UNCHANGED <<created, deleted, linked>>

Next ==
    \/ GetTabs \/ GetTab \/ PostTab \/ PatchTab \/ DeleteTab
    \/ GetBookmarks \/ GetBookmark \/ PostBookmark \/ PatchBookmark \/ DeleteBookmark
    \/ GetSections \/ GetSection \/ PostSection \/ PatchSection \/ DeleteSection
    \/ GetSettings \/ PatchSettings

Spec == Init /\ [][Next]_vars

----------------------------------------------------------------------------
\* Vocabulary of the properties.

Types == {"tabs", "bookmarks", "sections"}

\* The map of a type in store s, the type's insert schema, its by-id path.
MapOf(s, type) ==
    CASE type = "tabs" -> s.tabs
      [] type = "bookmarks" -> s.bookmarks
      [] type = "sections" -> s.sections

SchemaOf(type) ==
    CASE type = "tabs" -> insertTabSchema
      [] type = "bookmarks" -> insertBookmarkSchema
      [] type = "sections" -> insertSectionSchema
      [] type = "settings" -> insertSettingsSchema

IdPath(type) ==
    CASE type = "tabs" -> "/tabs/:id"
      [] type = "bookmarks" -> "/bookmarks/:id"
      [] type = "sections" -> "/sections/:id"

\* The last request was method on the by-id path of type, with a numeric id.
LastById(method, type) ==
    /\ last.req.method = method
    /\ last.req.path = IdPath(type)
    /\ ~isNaN(parseInt(last.req.params.id))

LastId == parseInt(last.req.params.id)[2]

\* The answer of GET by id for type in store s.
GetById(s, type, p) ==
    CASE type = "tabs" -> handleGetTab(s, [id |-> p])
      [] type = "bookmarks" -> handleGetBookmark(s, [id |-> p])
      [] type = "sections" -> handleGetSection(s, [id |-> p])

Values(m) == {m[i].value : i \in 1..Len(m)}

\* Every record of map m sits under the key equal to its id field.
KeyIsId(m) == \A i \in 1..Len(m) : m[i].value.id = Num(m[i].key)

\* The ids and the keys of map m are pairwise distinct.
DistinctIds(m) ==
    \A i, j \in 1..Len(m) : i # j => m[i].value.id # m[j].value.id /\ m[i].key # m[j].key

\* The type a path belongs to.
TypeOfPath(path) ==
    CASE path \in {"/tabs", "/tabs/:id"} -> "tabs"
      [] path \in {"/bookmarks", "/bookmarks/:id"} -> "bookmarks"
      [] path \in {"/sections", "/sections/:id"} -> "sections"
      [] path = "/settings" -> "settings"

\* The body of write request req does not fit the schema of its route.
BodyViolatesSchema(req) ==
    IF req.method = "POST"
    THEN ~parseOk(SchemaOf(TypeOfPath(req.path)), req.body)
    ELSE ~parseOk(partial(SchemaOf(TypeOfPath(req.path))), req.body)

\* arr is in non-decreasing order of the order field.
Sorted(arr) == \A i, j \in 1..Len(arr) : i < j => arr[i].order[2] <= arr[j].order[2]

Range(arr) == {arr[i] : i \in 1..Len(arr)}

\* arr lists the records of set, each once.
Lists(arr, set) == Range(arr) = set /\ Len(arr) = Cardinality(set)

\* The tab ids a list request is tried with: those in use, 0, the next id.
TabIdsTried ==
    {0, tabIdCounter} \cup MapKeys(tabs)
        \cup {b.tabId[2] : b \in Values(bookmarks)} \cup {x.tabId[2] : x \in Values(sections)}

----------------------------------------------------------------------------
\* C1: after DELETE /api/tabs/:id (deleteTab) on a tab that was in the store,
\* the store holds no tab with that id, no bookmark whose tabId is that id and
\* no section whose tabId is that id.
C1_DeleteTabCascades ==
    (LastById("DELETE", "tabs") /\ MapHas(last.pre.tabs, LastId)) =>
        /\ last.status = 204
        /\ ~MapHas(tabs, LastId)
        /\ \A tab \in Values(tabs) : tab.id # Num(LastId)
        /\ \A bookmark \in Values(bookmarks) : bookmark.tabId # Num(LastId)
        /\ \A section \in Values(sections) : section.tabId # Num(LastId)

\* A tab that had bookmarks and a section was deleted.
C1_Witness ==
    /\ LastById("DELETE", "tabs")
    /\ MapHas(last.pre.tabs, LastId)
    /\ IdsOfTab(last.pre.bookmarks, LastId) # {}
    /\ IdsOfTab(last.pre.sections, LastId) # {}

\* C2: in every reachable store the records of one type have pairwise distinct
\* ids, and every record sits under the map key equal to its own id field.
C2_IdsDistinctAndKeyed ==
    /\ KeyIsId(tabs) /\ DistinctIds(tabs)
    /\ KeyIsId(bookmarks) /\ DistinctIds(bookmarks)
    /\ KeyIsId(sections) /\ DistinctIds(sections)

\* An update whose body carried an id key was applied to a stored record.
C2_Witness ==
    /\ \E type \in Types : LastById("PATCH", type)
    /\ last.status = 200
    /\ "id" \in DOMAIN last.req.body
    /\ last.req.body.id # last.body.id

\* C3: a get by the id a create returned answers the data given to the create
\* plus that id, whatever was done to other ids since, as long as the record of
\* that id was neither updated nor deleted (by its own delete or with its tab).
C3_CreateThenGet ==
    \A c \in created :
        /\ MapGet(MapOf(Store, c.type), c.id) = Spread(c.data, [id |-> Num(c.id)])
        /\ \A p \in IdParams :
               parseInt(p) = Num(c.id) =>
                   /\ GetById(Store, c.type, p).status = 200
                   /\ GetById(Store, c.type, p).body = Spread(c.data, [id |-> Num(c.id)])

\* After the create, a request changed another record, and the created one is
\* still to be had.
C3_Witness ==
    /\ \E c \in created : \E p \in IdParams : parseInt(p) = Num(c.id)
    /\ last.req.method \in {"PATCH", "DELETE"}
    /\ last.status \in {200, 204}
    /\ Store # last.pre

\* C4: an update of a stored record sets exactly the fields of the partial
\* input to the given values and leaves every other field, the id included,
\* as it was.
C4_UpdateMerges ==
    \A type \in Types :
        (/\ LastById("PATCH", type)
         /\ MapHas(MapOf(last.pre, type), LastId)
         /\ parseOk(partial(SchemaOf(type)), last.req.body)) =>
            LET data == parse(partial(SchemaOf(type)), last.req.body)
                before == MapGet(MapOf(last.pre, type), LastId)
                after == MapGet(MapOf(Store, type), LastId)
            IN  /\ last.status = 200
                /\ last.body = after
                /\ DOMAIN after = DOMAIN before \cup DOMAIN data
                /\ \A k \in DOMAIN data : after[k] = data[k]
                /\ \A k \in DOMAIN before \ DOMAIN data : after[k] = before[k]
                /\ after.id = before.id
                /\ \A k \in Types \ {type} : MapOf(Store, k) = MapOf(last.pre, k)
                /\ \A i \in 1..Len(MapOf(Store, type)) :
                       MapOf(Store, type)[i].key # LastId =>
                           MapOf(Store, type)[i] = MapOf(last.pre, type)[i]

\* An update changed one field of a record and kept another.
C4_Witness ==
    \E type \in Types :
        /\ LastById("PATCH", type)
        /\ last.status = 200
        /\ \E k \in DOMAIN last.body :
               last.body[k] # MapGet(MapOf(last.pre, type), LastId)[k]
        /\ \E k \in DOMAIN last.body \ (DOMAIN last.req.body \cup {"id"}) :
               last.body[k] = MapGet(MapOf(last.pre, type), LastId)[k]

\* C5: a delete by id answers success (204) if and only if a record with that
\* id was in the store when it ran, else 404; a second delete of the same id
\* with no create in between answers 404.
C5_DeleteReportsPresence ==
    \A type \in Types :
        LastById("DELETE", type) =>
            /\ last.status = 204 <=> MapHas(MapOf(last.pre, type), LastId)
            /\ last.status = 404 <=> ~MapHas(MapOf(last.pre, type), LastId)
            /\ <<type, LastId>> \in last.preDeleted => last.status = 404

\* The same id was deleted a second time.
C5_Witness ==
    \E type \in Types :
        /\ LastById("DELETE", type)
        /\ <<type, LastId>> \in last.preDeleted
        /\ last.status = 404

\* C6: every write endpoint (POST and PATCH of tabs, bookmarks and sections,
\* PATCH /api/settings) answers a body that violates the record's schema with
\* 400 and leaves the store, the id counters included, unchanged.
C6_InvalidBodyRejected ==
    (last.req.method \in {"POST", "PATCH"} /\ BodyViolatesSchema(last.req)) =>
        /\ last.status = 400
        /\ Store = last.pre

\* C7: after any sequence of requests the theme of the settings record is one
\* of light, dark and system.
C7_ThemeIsKnown == settings.theme \in {Str("light"), Str("dark"), Str("system")}

\* C8 as stated: a GET, PATCH or DELETE by numeric id answers 404 exactly when
\* no record of that type with that id is in the store.
C8_NotFoundIffAbsent ==
    \A type \in Types : \A method \in {"GET", "PATCH", "DELETE"} :
        LastById(method, type) =>
            (last.status = 404 <=> ~MapHas(MapOf(last.pre, type), LastId))

\* C8, amended: a GET, a DELETE, or a PATCH whose body fits the schema, by
\* numeric id, answers 404 exactly when no record of that type with that id is
\* in the store; a PATCH whose body violates the schema answers 400 whether or
\* not the record is there.
C8_NotFoundIffAbsentForValidBody ==
    \A type \in Types : \A method \in {"GET", "PATCH", "DELETE"} :
        LastById(method, type) =>
            IF method = "PATCH" /\ BodyViolatesSchema(last.req)
            THEN last.status = 400
            ELSE last.status = 404 <=> ~MapHas(MapOf(last.pre, type), LastId)

\* A PATCH with a fitting body met no record, and one with a body that does
\* not fit would have met none either.
C8_Witness ==
    \E type \in Types :
        /\ LastById("PATCH", type)
        /\ ~BodyViolatesSchema(last.req)
        /\ ~MapHas(MapOf(last.pre, type), LastId)
        /\ last.status = 404

\* C9: getTabs returns every stored tab in non-decreasing order of the order
\* field; getBookmarksByTab(t) and getSectionsByTab(t) return exactly the
\* stored records whose tabId is t, in non-decreasing order of order;
\* getBookmarks and getSections return every stored record of their type.
C9_ListsCompleteAndSorted ==
    /\ Sorted(getTabs(Store)) /\ Lists(getTabs(Store), Values(tabs))
    /\ Lists(getBookmarks(Store), Values(bookmarks))
    /\ Lists(getSections(Store), Values(sections))
    /\ Len(tabs) = Cardinality(Values(tabs))
    /\ Len(bookmarks) = Cardinality(Values(bookmarks))
    /\ Len(sections) = Cardinality(Values(sections))
    /\ \A t \in TabIdsTried :
        /\ Sorted(getBookmarksByTab(Store, t))
        /\ Lists(getBookmarksByTab(Store, t),
                 {b \in Values(bookmarks) : b.tabId = Num(t)})
        /\ Sorted(getSectionsByTab(Store, t))
        /\ Lists(getSectionsByTab(Store, t),
                 {x \in Values(sections) : x.tabId = Num(t)})

\* The maps hold the tabs and the bookmarks of a tab out of order, so the
\* lists are not in the maps' order.
C9_Witness ==
    /\ ~Sorted(MapValues(tabs))
    /\ \E t \in TabIdsTried : ~Sorted(filterByTab(MapValues(bookmarks), t))

\* C10 as stated: every section's tabId is the id of a tab in the store.
C10_SectionTabStored ==
    \A section \in Values(sections) : MapHas(tabs, section.tabId[2])

\* C10, amended: every section has one tabId; a section whose tabId named a
\* stored tab when POST or PATCH last set it names a stored tab still, since
\* deleting the tab deletes the section; POST and PATCH do not check tabId, so
\* a section can name a tab that is not in the store.
C10_LinkedSectionTabStored ==
    \A i \in 1..Len(sections) :
        /\ TypeOf(sections[i].value.tabId) = "number"
        /\ sections[i].key \in linked => MapHas(tabs, sections[i].value.tabId[2])

\* A tab with a linked section was deleted, and the store holds sections.
C10_Witness ==
    /\ LastById("DELETE", "tabs")
    /\ last.status = 204
    /\ IdsOfTab(last.pre.sections, LastId) \cap linked # {}
    /\ Len(sections) > 0

----------------------------------------------------------------------------
\* Bookmarks and the sections they name.

\* Some section of store s has bookmark b's tabId and b's sectionName as name.
NamesSection(s, b) ==
    \E section \in Values(s.sections) :
        section.tabId = b.tabId /\ section.name = b.sectionName

\* The last request was a POST to path with a body that fits the schema.
LastValidPost(path) ==
    /\ last.req.method = "POST"
    /\ last.req.path = path
    /\ ~BodyViolatesSchema(last.req)

\* C11: a POST of a bookmark whose body fits the schema is answered 201 and a
\* PATCH of a stored bookmark whose body fits the schema is answered 200,
\* whatever sectionName the body gives, and the stored bookmark carries that
\* sectionName: no section is looked up.
C11_SectionNameUnchecked ==
    /\ LastValidPost("/bookmarks") =>
           /\ last.status = 201
           /\ MapGet(bookmarks, last.body.id[2]).sectionName = last.req.body.sectionName
    /\ ( /\ LastById("PATCH", "bookmarks")
         /\ ~BodyViolatesSchema(last.req)
         /\ MapHas(last.pre.bookmarks, LastId) ) =>
           /\ last.status = 200
           /\ "sectionName" \in DOMAIN last.req.body =>
                  MapGet(bookmarks, LastId).sectionName = last.req.body.sectionName

\* A PATCH has given a stored bookmark a sectionName that no section of its
\* tab has, after a POST stored another bookmark that names no section.
C11_Witness ==
    /\ LastById("PATCH", "bookmarks")
    /\ last.status = 200
    /\ "sectionName" \in DOMAIN last.req.body
    /\ NamesSection(last.pre, MapGet(last.pre.bookmarks, LastId))
    /\ ~NamesSection(Store, MapGet(bookmarks, LastId))
    /\ \E c \in created :
           /\ c.type = "bookmarks"
           /\ MapHas(bookmarks, c.id)
           /\ ~NamesSection(Store, MapGet(bookmarks, c.id))

\* C12: after DELETE /api/sections/:id is answered 204, no bookmark of the
\* section's tab with the section's name as sectionName is in the store.
C12_SectionDeleteRemovesBookmarks ==
    ( LastById("DELETE", "sections") /\ last.status = 204 ) =>
        LET section == MapGet(last.pre.sections, LastId)
        IN  \A b \in Values(bookmarks) :
                ~(b.tabId = section.tabId /\ b.sectionName = section.name)

----------------------------------------------------------------------------
\* Concurrent clients. A handler runs from the arrival of its request to its
\* await of the storage call without giving way; the storage methods have no
\* await of their own, so the call has changed the store when the handler
\* suspends. The response goes out when the handler resumes, in any order.

ConcurrentTabPatches == TabPatches \cup {[name |-> Str("Final"), order |-> Num(7)]}

ConcurrentRequests ==
    {Request("POST", "/tabs", EmptyObject, EmptyObject, body) : body \in TabBodies}
    \cup {Request("POST", "/bookmarks", EmptyObject, EmptyObject, body) :
             body \in BookmarkBodies}
    \cup {Request("PATCH", "/tabs/:id", [id |-> p], EmptyObject, body) :
             p \in {<<"1">>, <<"5">>}, body \in ConcurrentTabPatches}

\* The route of a request.
handle(s, req) ==
    CASE req.method = "POST" /\ req.path = "/tabs" -> handlePostTab(s, req.body)
      [] req.method = "POST" /\ req.path = "/bookmarks" -> handlePostBookmark(s, req.body)
      [] req.method = "POST" /\ req.path = "/sections" -> handlePostSection(s, req.body)
      [] req.method = "PATCH" /\ req.path = "/tabs/:id" ->
             handlePatchTab(s, req.params, req.body)
      [] req.method = "GET" /\ req.path = "/bookmarks" -> handleGetBookmarks(s, req.query)
      [] req.method = "GET" /\ req.path = "/sections" -> handleGetSections(s, req.query)
      [] req.method = "PATCH" /\ req.path = "/sections/:id" ->
             handlePatchSection(s, req.params, req.body)
      [] req.method = "DELETE" /\ req.path = "/sections/:id" ->
             handleDeleteSection(s, req.params)
      [] req.method = "DELETE" /\ req.path = "/bookmarks/:id" ->
             handleDeleteBookmark(s, req.params)

\* The store becomes s.
Stored(s) ==
    /\ tabs' = s.tabs
    /\ bookmarks' = s.bookmarks
    /\ sections' = s.sections
    /\ settings' = s.settings
    /\ tabIdCounter' = s.tabIdCounter
    /\ bookmarkIdCounter' = s.bookmarkIdCounter
    /\ sectionIdCounter' = s.sectionIdCounter

\* Client c sends a request.
Send(c) ==
    \E req \in ConcurrentRequests :
        /\ clients[c].pc = "idle"
        /\ clients' = [clients EXCEPT ![c] = [pc |-> "sent", req |-> req]]
        /\ UNCHANGED <<tabs, bookmarks, sections, settings, tabIdCounter,
                       bookmarkIdCounter, sectionIdCounter, last, created, deleted,
                       linked, ops, order, flow, page, bar>>

\* The handler of c's request runs to its await: it parses the body and calls
\* the store. A 400 is answered without an await.
Call(c) ==
    LET r == handle(Store, clients[c].req)
    IN  /\ clients[c].pc = "sent"
        /\ Stored(r.s)
        /\ clients' = [clients EXCEPT ![c] =
                          [pc |-> IF r.status = 400 THEN "answered" ELSE "awaiting",
                           req |-> clients[c].req, status |-> r.status, body |-> r.body]]
        /\ order' = Append(order, c)
        /\ UNCHANGED <<last, created, deleted, linked, ops, flow, page, bar>>

\* The handler of c's request resumes and sends the response.
Resume(c) ==
    /\ clients[c].pc = "awaiting"
    /\ clients' = [clients EXCEPT ![c].pc = "answered"]
    /\ UNCHANGED <<tabs, bookmarks, sections, settings, tabIdCounter,
                   bookmarkIdCounter, sectionIdCounter, last, created, deleted,
                   linked, ops, order, flow, page, bar>>

ConcurrentNext ==
    \/ \E c \in Clients : Send(c)
    \/ \E c \in Clients : Call(c)
    \/ \E c \in Clients : Resume(c)

ConcurrentSpec == Init /\ [][ConcurrentNext]_vars

\* The server has called the store for client c's request.
Called(c) == clients[c].pc \in {"awaiting", "answered"}

\* Client c's request is a POST for which the store created a record.
CreatedFor(c) ==
    /\ Called(c)
    /\ clients[c].req.method = "POST"
    /\ clients[c].status = 201

\* C13: in every interleaving of concurrent requests, two POSTs of the same
\* type answered 201 carry different ids, and the record of every such POST is
\* in the store under its id.
C13_ConcurrentCreatesDistinct ==
    /\ \A c, d \in Clients :
           ( /\ c # d
             /\ CreatedFor(c) /\ CreatedFor(d)
             /\ clients[c].req.path = clients[d].req.path ) =>
               clients[c].body.id # clients[d].body.id
    /\ \A c \in Clients :
           CreatedFor(c) =>
               LET m == MapOf(Store, TypeOfPath(clients[c].req.path))
                   id == clients[c].body.id[2]
               IN  /\ MapHas(m, id)
                   /\ MapGet(m, id).id = Num(id)

\* Two POSTs of tabs were handled one after the other and the second one was
\* answered while the handler of the first had not resumed.
C13_Witness ==
    \E c, d \in Clients :
        /\ order = <<c, d>>
        /\ CreatedFor(c) /\ CreatedFor(d)
        /\ clients[c].req.path = "/tabs" /\ clients[d].req.path = "/tabs"
        /\ clients[c].pc = "awaiting"
        /\ clients[d].pc = "answered"

\* The positions in order of the PATCHes of tab id that were answered 200 and
\* whose parsed body gives field f.
PatchesGiving(id, f) ==
    {i \in 1..Len(order) :
        LET client == clients[order[i]]
        IN  /\ client.req.method = "PATCH"
            /\ parseInt(client.req.params.id) = Num(id)
            /\ client.status = 200
            /\ f \in DOMAIN parse(partial(insertTabSchema), client.req.body)}

Max(S) == CHOOSE x \in S : \A y \in S : y <= x

\* C14: whatever the order in which concurrent PATCHes of one tab are handled,
\* each field of the stored tab that some of them gave has the value given by
\* the one of them handled last.
C14_LastWriteWinsPerField ==
    \A id \in MapKeys(tabs) : \A f \in DOMAIN insertTabSchema :
        LET given == PatchesGiving(id, f)
            winner == clients[order[Max(given)]]
        IN  given # {} =>
                MapGet(tabs, id)[f] = parse(partial(insertTabSchema), winner.req.body)[f]

\* Two PATCHes of one tab were handled: both gave order, with different
\* values, and only the first one gave name.
C14_Witness ==
    \E id \in MapKeys(tabs) :
        /\ Cardinality(PatchesGiving(id, "order")) = 2
        /\ Cardinality(PatchesGiving(id, "name")) = 1
        /\ PatchesGiving(id, "name") = {1}
        /\ clients[order[1]].req.body.order # clients[order[2]].req.body.order

----------------------------------------------------------------------------
\* Ids, list queries, and what a request leaves alone.

\* The ids of type assigned so far, given store s and the deletions d: each is
\* the key of a stored record or the id of a deleted one.
AssignedIds(s, d, type) ==
    MapKeys(MapOf(s, type)) \cup {x[2] : x \in {y \in d : y[1] = type}}

\* C15: the id a create returns is greater than every id assigned before it
\* for the type, the seeded ids and the ids of deleted records included.
C15_IdsIncrease ==
    ( last.req.method = "POST" /\ last.status = 201 ) =>
        \A k \in AssignedIds(last.pre, last.preDeleted, TypeOfPath(last.req.path)) :
            last.body.id[2] > k

\* A record was created after a record of its type had been deleted.
C15_Witness ==
    /\ last.req.method = "POST"
    /\ last.status = 201
    /\ \E d \in last.preDeleted : d[1] = TypeOfPath(last.req.path)
    /\ MapHas(MapOf(Store, TypeOfPath(last.req.path)), last.body.id[2])

\* The last request was a list request for bookmarks or sections.
LastList == last.req.method = "GET" /\ last.req.path \in {"/bookmarks", "/sections"}

\* C16: a list request for bookmarks or sections whose tabId is given and does
\* not parse to a number is answered 400 with "Invalid tabId format".
C16_InvalidTabIdRejected ==
    ( /\ LastList
      /\ "tabId" \in DOMAIN last.req.query
      /\ isNaN(parseInt(last.req.query.tabId)) ) =>
        /\ last.status = 400
        /\ last.body = Message("Invalid tabId format")

\* C17: a list request for bookmarks or sections with an integer tabId, 0
\* included, is answered with records of that tabId only.
C17_TabIdFilters ==
    ( /\ LastList
      /\ "tabId" \in DOMAIN last.req.query
      /\ ~isNaN(parseInt(last.req.query.tabId)) ) =>
        /\ last.status = 200
        /\ \A r \in Range(last.body.array) : r.tabId = parseInt(last.req.query.tabId)

\* C18: a request answered 404 leaves the store as it was before the request.
C18_NotFoundChangesNothing ==
    last.status = 404 => Store = last.pre

\* The records of map m are in map n as they are in m, except those set apart.
Kept(m, n, apart(_)) ==
    \A i \in 1..Len(m) : ~apart(m[i]) => MapGet(n, m[i].key) = m[i].value

\* C19: deleteTab(id) leaves every other tab, every bookmark and section with
\* another tabId, the settings and the three counters as they were, and adds
\* no record; a request for bookmarks or sections leaves the tabs as they were.
C19_DeleteTabFrame ==
    /\ LastById("DELETE", "tabs") =>
           LET IsTab(e) == e.key = LastId
               OfTab(e) == e.value.tabId = Num(LastId)
           IN  /\ Kept(last.pre.tabs, tabs, IsTab)
               /\ Kept(last.pre.bookmarks, bookmarks, OfTab)
               /\ Kept(last.pre.sections, sections, OfTab)
               /\ \A type \in Types :
                      MapKeys(MapOf(Store, type)) \subseteq MapKeys(MapOf(last.pre, type))
               /\ settings = last.pre.settings
               /\ tabIdCounter = last.pre.tabIdCounter
               /\ bookmarkIdCounter = last.pre.bookmarkIdCounter
               /\ sectionIdCounter = last.pre.sectionIdCounter
    /\ last.req.path \in {"/bookmarks", "/bookmarks/:id", "/sections", "/sections/:id"} =>
           tabs = last.pre.tabs

\* A tab was deleted while the store held bookmarks of it and of another tab,
\* and sections of it and of other tabs.
C19_Witness ==
    /\ LastById("DELETE", "tabs")
    /\ last.status = 204
    /\ \E b \in Values(last.pre.bookmarks) : b.tabId = Num(LastId)
    /\ \E b \in Values(last.pre.bookmarks) : b.tabId # Num(LastId)
    /\ \E x \in Values(last.pre.sections) : x.tabId = Num(LastId)
    /\ \E x \in Values(last.pre.sections) : x.tabId # Num(LastId)

----------------------------------------------------------------------------
\* The add-tab flow of the page: TabBar.handleAddTab and useTabs.addTab. Each
\* posts the tab, then posts the tab's default section. A request of the flow
\* is sent, the server handles it, and the response arrives, unless the fetch
\* fails before or after the server has handled the request.

\* The names typed into the dialog.
NewTabNames == {"News", "Work", "  "}

\* String.trim on the names typed here: a name of spaces becomes empty, the
\* other names have no space at either end.
trim(str) == IF str \in {"", " ", "  "} THEN "" ELSE str

\* tabs.length ? Math.max(...tabs.map(tab => tab.order)) : 0
maxOrder(arr) ==
    IF Len(arr) > 0 THEN Max({arr[i].order[2] : i \in 1..Len(arr)}) ELSE 0

\* apiRequest resolves for a response with an ok status and throws otherwise.
ok(status) == status >= 200 /\ status <= 299

\* The flow may start: no run of it is under way.
FlowAtRest == flow.pc \in {"idle", "rejected", "failed", "done"} /\ flow.runs < MaxFlows

\* The flow starts and sends POST /api/tabs with body.
PostsTab(via, body) ==
    [flow EXCEPT !.pc = "postTab", !.via = via, !.net = "sent",
                 !.req = Request("POST", "/tabs", EmptyObject, EmptyObject, body),
                 !.res = undefined, !.newTab = undefined, !.toasts = <<>>,
                 !.before = tabs, !.runs = @ + 1]

\* The rest of the state, which the page's own steps leave alone.
PageStep ==
    UNCHANGED <<tabs, bookmarks, sections, settings, tabIdCounter, bookmarkIdCounter,
                sectionIdCounter, last, created, deleted, linked, ops, clients, order,
                page, bar>>

\* TabBar.handleAddTab up to its first await: an empty name is refused.
handleAddTab ==
    \E newTabName \in NewTabNames :
        /\ FlowAtRest
        /\ flow' = IF trim(newTabName) = ""
                   THEN [flow EXCEPT !.pc = "rejected", !.via = "TabBar",
                                     !.toasts = <<"Tab name is required">>,
                                     !.before = tabs, !.runs = @ + 1]
                   ELSE PostsTab("TabBar", [name |-> Str(newTabName),
                                            order |-> Num(maxOrder(flow.tabs) + 1)])
        /\ PageStep

\* useTabs.addTab up to its first await.
addTab ==
    \E name \in NewTabNames :
        /\ FlowAtRest
        /\ flow' = PostsTab("useTabs", Spread([name |-> Str(name)],
                                              [order |-> Num(maxOrder(flow.tabs) + 1)]))
        /\ PageStep

\* The server handles the request of the flow.
Serve ==
    LET r == handle(Store, flow.req)
    IN  /\ flow.net = "sent"
        /\ Stored(r.s)
        /\ flow' = [flow EXCEPT !.net = "handled",
                                !.res = [status |-> r.status, body |-> r.body]]
        /\ UNCHANGED <<last, created, deleted, linked, ops, clients, order, page, bar>>

\* catch (error): the flow ends with the toast "Failed to create tab".
Caught ==
    [flow EXCEPT !.pc = "failed", !.net = "none",
                 !.toasts = Append(@, "Failed to create tab")]

\* The fetch of the flow's request fails: apiRequest throws.
FetchFails ==
    /\ flow.net \in {"sent", "handled"}
    /\ flow' = Caught
    /\ PageStep

\* The toast "New tab created": TabBar shows it once the tab's response is
\* read, useTabs at the end of the flow.
Toasted(via, at) ==
    IF via = at THEN Append(flow.toasts, "New tab created") ELSE flow.toasts

\* The response arrives and the flow goes on: after the tab's response it
\* sends POST /api/sections for the new tab, after the section's response it
\* invalidates the tabs query and ends.
ResponseArrives ==
    /\ flow.net = "handled"
    /\ flow' =
          IF ~ok(flow.res.status) THEN Caught
          ELSE IF flow.pc = "postTab"
          THEN [flow EXCEPT
                  !.pc = "postSection", !.net = "sent", !.newTab = flow.res.body,
                  !.toasts = Toasted(flow.via, "TabBar"),
                  !.req = Request("POST", "/sections", EmptyObject, EmptyObject,
                                  [tabId |-> flow.res.body.id, name |-> Str("New Section"),
                                   color |-> Str("#FF6B35"), order |-> Num(1)])]
          ELSE [flow EXCEPT !.pc = "done", !.net = "none", !.stale = TRUE,
                            !.toasts = Toasted(flow.via, "useTabs")]
    /\ PageStep

\* The invalidated tabs query fetches GET /api/tabs again.
Refetch ==
    /\ flow.stale
    /\ flow' = [flow EXCEPT !.tabs = handleGetTabs(Store).body.array, !.stale = FALSE]
    /\ PageStep

AddTabNext ==
    \/ handleAddTab \/ addTab \/ Serve \/ FetchFails \/ ResponseArrives \/ Refetch

AddTabSpec == Init /\ [][AddTabNext]_vars

\* C20: when the add-tab flow ends with "Failed to create tab", the store
\* holds the tabs it held when the flow started and no other; when it ends
\* with success, the new tab is in the store and a section of the store has
\* the new tab's id as tabId.
C20_AddTabAllOrNothing ==
    /\ flow.pc = "failed" => tabs = flow.before
    /\ flow.pc = "done" =>
           /\ MapHas(tabs, flow.newTab.id[2])
           /\ \E section \in Values(sections) : section.tabId = flow.newTab.id

----------------------------------------------------------------------------
\* The page Home with its sections (BookmarkSection) and the useBookmarks
\* hook. The page shows the sections and bookmarks of the active tab as its
\* two queries last fetched them; an operation of the page sends its requests
\* and, when they are answered ok, invalidates a query, which is then fetched
\* again. The search box stays empty.

\* Bound on the number of operations done on the page.
MaxPageOps == 3

\* The decimal digits of a number, as in `/api/bookmarks?tabId=${tabId}`.
Digit(n) == CHOOSE c \in DOMAIN DigitValue : DigitValue[c] = n

RECURSIVE toString(_)
toString(n) == IF n < 10 THEN <<Digit(n)>> ELSE Append(toString(n \div 10), Digit(n % 10))

\* The answer to a request of the page in store s.
fetch(s, method, path, id, body) ==
    handle(s, Request(method, path,
                      IF path \in {"/bookmarks/:id", "/sections/:id"}
                      THEN [id |-> toString(id)] ELSE EmptyObject,
                      IF method = "GET" THEN [tabId |-> toString(id)] ELSE EmptyObject,
                      body))

\* The urls typed or dropped, and url.startsWith(prefix) on them.
Urls == {"example.org", "https://example.org"}

startsWith(url, prefix) == <<url, prefix>> \in {<<"https://example.org", "https://">>}

\* filteredBookmarks with an empty searchQuery: the bookmarks of the query.
filteredBookmarks(p) == p.bookmarks

\* bookmarksBySection: the bookmarks grouped by their sectionName, in order.
bookmarksBySection(p) ==
    LET arr == filteredBookmarks(p)
    IN  [name \in {arr[i].sectionName : i \in 1..Len(arr)} |->
            SelectSeq(arr, LAMBDA bookmark : bookmark.sectionName = name)]

\* bookmarksBySection[section.name] || []: what the page shows under section.
Shown(p, section) ==
    IF section.name \in DOMAIN bookmarksBySection(p)
    THEN bookmarksBySection(p)[section.name]
    ELSE <<>>

\* The page shows its sections: neither query is loading.
Rendered == ~page.sectionsLoading /\ ~page.bookmarksLoading

\* An operation of the page was answered r: the store is r.s, did records the
\* operation, and an ok answer invalidates the queries named.
PageDoes(r, did, invalidatesSections, invalidatesBookmarks) ==
    /\ Rendered
    /\ page.ops < MaxPageOps
    /\ Stored(r.s)
    /\ page' = [page EXCEPT
                  !.did = Spread(did, [status |-> r.status, pre |-> Store,
                                       was |-> [sections |-> page.sections,
                                                bookmarks |-> page.bookmarks]]),
                  !.ops = @ + 1,
                  !.sectionsStale = @ \/ (invalidatesSections /\ ok(r.status)),
                  !.bookmarksStale = @ \/ (invalidatesBookmarks /\ ok(r.status))]
    /\ UNCHANGED <<last, created, deleted, linked, ops, clients, order, flow, bar>>

\* lib/faviconHelper: the favicon and the default title of a url.
getFaviconUrl(url) == Str(url \o "/favicon.ico")

generateTitleFromUrl(url) == Str(url)

\* The id of the record a create answered with, 0 when it answered none.
NewId(r) == IF r.status = 201 THEN r.body.id ELSE Num(0)

\* useBookmarks.addBookmark for a section of the page: the order is the number
\* of bookmarks the tab has in the section, plus one.
addBookmark ==
    \E i \in 1..Len(page.sections), typed \in Urls :
        LET tabId == page.activeTabId
            bookmarkData == [tabId |-> Num(tabId), sectionName |-> page.sections[i].name,
                             title |-> Str("Example"), url |-> Str(typed)]
            existingBookmarks == fetch(Store, "GET", "/bookmarks", tabId, EmptyObject).body.array
            sectionBookmarks ==
                SelectSeq(existingBookmarks,
                          LAMBDA b : b.sectionName = bookmarkData.sectionName)
            newOrder == Len(sectionBookmarks) + 1
            url == IF ~startsWith(typed, "http://") /\ ~startsWith(typed, "https://")
                   THEN "https://" \o typed
                   ELSE typed
            r == fetch(Store, "POST", "/bookmarks", 0,
                       Spread(bookmarkData, [url |-> Str(url), favicon |-> getFaviconUrl(url),
                                             order |-> Num(newOrder)]))
        IN  PageDoes(r, [op |-> "addBookmark", section |-> page.sections[i], id |-> NewId(r)],
                     FALSE, TRUE)

\* BookmarkSection.handleAddBookmarkFromUrl: a url dropped on a section.
handleAddBookmarkFromUrl ==
    \E i \in 1..Len(page.sections), url \in Urls :
        LET section == page.sections[i]
            newBookmark == [tabId |-> section.tabId, sectionName |-> section.name,
                            title |-> generateTitleFromUrl(url), url |-> Str(url),
                            favicon |-> getFaviconUrl(url), order |-> Num(0)]
            r == fetch(Store, "POST", "/bookmarks", 0, newBookmark)
        IN  PageDoes(r, [op |-> "handleAddBookmarkFromUrl", section |-> section,
                         id |-> NewId(r)],
                     FALSE, TRUE)

\* The names typed into the edit dialog of a section.
SectionNames == {"Renamed"}

\* BookmarkSection.handleSaveEdit: the section gets the name and color of the
\* dialog; the color is left as it is here.
handleSaveEdit ==
    \E i \in 1..Len(page.sections), sectionName \in SectionNames :
        LET section == page.sections[i]
            r == fetch(Store, "PATCH", "/sections/:id", section.id[2],
                       [name |-> Str(sectionName), color |-> section.color])
        IN  PageDoes(r, [op |-> "handleSaveEdit", section |-> section, id |-> section.id],
                     TRUE, FALSE)

\* Home.addNewSection: a section "New Section" after the sections of the page.
colors == {"#FF6B35", "#4ECDC4", "#FFD166", "#6BBA75"}

addNewSection ==
    \E randomColor \in colors :
        LET r == fetch(Store, "POST", "/sections", 0,
                       [tabId |-> Num(page.activeTabId), name |-> Str("New Section"),
                        color |-> Str(randomColor),
                        order |-> Num(maxOrder(page.sections) + 1)])
        IN  PageDoes(r, [op |-> "addNewSection", id |-> NewId(r)], TRUE, FALSE)

\* BookmarkSection.handleDelete: the section is deleted.
handleDelete ==
    \E i \in 1..Len(page.sections) :
        LET section == page.sections[i]
            r == fetch(Store, "DELETE", "/sections/:id", section.id[2], EmptyObject)
        IN  PageDoes(r, [op |-> "handleDelete", section |-> section, id |-> section.id],
                     TRUE, FALSE)

\* useBookmarks.removeBookmark for a bookmark of the page.
removeBookmark ==
    \E j \in 1..Len(page.bookmarks) :
        LET bookmarkId == page.bookmarks[j].id
            r == fetch(Store, "DELETE", "/bookmarks/:id", bookmarkId[2], EmptyObject)
        IN  PageDoes(r, [op |-> "removeBookmark", id |-> bookmarkId], FALSE, TRUE)

\* The rest of the state, which a step of the page's queries leaves alone.
QueryStep ==
    UNCHANGED <<tabs, bookmarks, sections, settings, tabIdCounter, bookmarkIdCounter,
                sectionIdCounter, last, created, deleted, linked, ops, clients, order,
                flow, bar>>

\* The tabs the user switches between.
TabsClicked == {1, 2}

\* setActiveTabId: the queries get a new key and load; the same id changes
\* nothing.
setActiveTabId(p, tabId) ==
    IF tabId = p.activeTabId THEN p
    ELSE [p EXCEPT !.activeTabId = tabId,
                   !.sections = <<>>, !.sectionsLoading = TRUE,
                   !.bookmarks = <<>>, !.bookmarksLoading = TRUE]

\* A click on another tab.
ClickTab ==
    \E tabId \in TabsClicked \ {page.activeTabId} :
        /\ page' = setActiveTabId(page, tabId)
        /\ QueryStep

\* The sections query fetches /api/sections?tabId=<activeTabId>.
RefetchSections ==
    /\ page.sectionsLoading \/ page.sectionsStale
    /\ page' = [page EXCEPT
                  !.sections = fetch(Store, "GET", "/sections", page.activeTabId,
                                     EmptyObject).body.array,
                  !.sectionsLoading = FALSE, !.sectionsStale = FALSE]
    /\ QueryStep

\* The bookmarks query fetches /api/bookmarks?tabId=<activeTabId>.
RefetchBookmarks ==
    /\ page.bookmarksLoading \/ page.bookmarksStale
    /\ page' = [page EXCEPT
                  !.bookmarks = fetch(Store, "GET", "/bookmarks", page.activeTabId,
                                      EmptyObject).body.array,
                  !.bookmarksLoading = FALSE, !.bookmarksStale = FALSE]
    /\ QueryStep

PageNext ==
    \/ addBookmark \/ handleAddBookmarkFromUrl \/ handleSaveEdit \/ addNewSection
    \/ handleDelete \/ removeBookmark \/ ClickTab \/ RefetchSections \/ RefetchBookmarks

PageSpec == Init /\ [][PageNext]_vars

\* The last operation of the page was op and it was answered ok.
Did(op) == page.did.op = op /\ ok(page.did.status)

\* The bookmarks of store s in the tab and section of bookmark b, b left out.
SectionMates(s, b) ==
    {other \in Values(s.bookmarks) :
        /\ other.id # b.id
        /\ other.tabId = b.tabId
        /\ other.sectionName = b.sectionName}

\* Both queries of the page hold what the server holds for the active tab.
Fresh ==
    /\ Rendered
    /\ ~page.sectionsStale
    /\ ~page.bookmarksStale

\* C21: the order of a bookmark added through useBookmarks.addBookmark is
\* greater than the order of every bookmark the store held in its section of
\* the tab before the add.
C21_AddedBookmarkIsLast ==
    Did("addBookmark") =>
        LET added == MapGet(bookmarks, page.did.id[2])
        IN  \A other \in SectionMates(page.did.pre, added) : added.order[2] > other.order[2]

\* C22: the stored order of a bookmark added by dropping a url on a section
\* is not the 0 it was sent with, and differs from the order of every other
\* bookmark of the section.
C22_DroppedBookmarkGetsOrder ==
    Did("handleAddBookmarkFromUrl") =>
        LET added == MapGet(bookmarks, page.did.id[2])
        IN  /\ added.order # Num(0)
            /\ \A other \in SectionMates(Store, added) : added.order # other.order

\* The section of page p with the id of section, as p shows it.
SectionNow(p, section) ==
    p.sections[CHOOSE i \in 1..Len(p.sections) : p.sections[i].id = section.id]

\* C23: once the page has fetched its queries after a rename, it shows under
\* the renamed section the bookmarks it showed under it before the rename.
C23_RenameKeepsBookmarks ==
    ( Did("handleSaveEdit") /\ Fresh ) =>
        Shown(page, SectionNow(page, page.did.section))
            = Shown(page.did.was, page.did.section)

\* The positions of the sections under which page p shows bookmark b.
ShownUnder(p, b) ==
    {i \in 1..Len(p.sections) : b \in Range(Shown(p, p.sections[i]))}

\* C24: with an empty search query and both queries fetched, every bookmark
\* of the active tab is shown under exactly one section of the page.
C24_ShownInOneSection ==
    ( Fresh /\ page.searchQuery = "" ) =>
        \A j \in 1..Len(page.bookmarks) :
            Cardinality(ShownUnder(page, page.bookmarks[j])) = 1

----------------------------------------------------------------------------
\* TabBar: the auto-switch effect and its interval timer.

\* The ticks counted from the last change other than a tick.
MaxTicks == 6

\* tabs.findIndex(tab => tab.id === activeTabId), counted from 0.
findIndex(list, activeTabId) ==
    LET at == {i \in 1..Len(list) : list[i].id = Num(activeTabId)}
    IN  IF at = {} THEN -1
        ELSE (CHOOSE i \in at : \A j \in at : i <= j) - 1

\* The interval's callback, on the tabs and the active tab of the render that
\* set the timer: the id it hands to onTabChange.
callback(timer) ==
    LET currentIndex == findIndex(timer.tabs, timer.activeTabId)
        nextIndex == (currentIndex + 1) % Len(timer.tabs)
    IN  timer.tabs[nextIndex + 1].id[2]

\* clearInterval(autoSwitchTimerRef.current), when the ref holds a timer.
clearInterval(timers, ref) == {t \in timers : t.id \notin ref}

\* setInterval returns an id no live timer has.
setInterval(timers) ==
    CHOOSE id \in 1..(Cardinality(timers) + 1) : \A t \in timers : t.id # id

\* The effect without the clearing of the timer the ref holds.
useEffectKeepsTimer(b, activeTabId) ==
    IF b.autoSwitchEnabled /\ Len(b.tabs) > 1
    THEN LET id == setInterval(b.timers)
         IN  [b EXCEPT !.timers = @ \cup {[id |-> id, tabs |-> b.tabs,
                                           activeTabId |-> activeTabId]},
                       !.autoSwitchTimerRef = {id}]
    ELSE [b EXCEPT !.autoSwitchTimerRef = {}]

\* The effect, with the cleanup of the run before it: the timer of the ref is
\* cleared, and a new one is set while auto-switch is on and there are two
\* tabs or more.
useEffect(b, activeTabId) ==
    LET cleared == [b EXCEPT !.timers = clearInterval(b.timers, b.autoSwitchTimerRef),
                             !.autoSwitchTimerRef = {}]
    IN  IF cleared.autoSwitchEnabled /\ Len(cleared.tabs) > 1
        THEN LET id == setInterval(cleared.timers)
             IN  [cleared EXCEPT !.timers = @ \cup {[id |-> id, tabs |-> b.tabs,
                                                     activeTabId |-> activeTabId]},
                                 !.autoSwitchTimerRef = {id}]
        ELSE cleared

\* A render of TabBar with state b and active tab activeTabId: the effect runs
\* when one of [autoSwitchEnabled, activeTabId, tabs] is not what it was.
Render(b, activeTabId) ==
    IF <<b.autoSwitchEnabled, activeTabId, b.tabs>>
         # <<bar.autoSwitchEnabled, page.activeTabId, bar.tabs>>
    THEN useEffect(b, activeTabId)
    ELSE b

\* A change that is not a tick: the count of ticks starts again.
Untimed(b) ==
    [b EXCEPT !.ticked = [fired |-> FALSE, before |-> 0], !.ticks = 0, !.seen = {}]

BarStep ==
    UNCHANGED <<tabs, bookmarks, sections, settings, tabIdCounter, bookmarkIdCounter,
                sectionIdCounter, last, created, deleted, linked, ops, clients, order,
                flow>>

\* onTabChange is Home's setActiveTabId.
onTabChange(b, tabId) ==
    /\ page' = setActiveTabId(page, tabId)
    /\ bar' = Render(b, tabId)
    /\ BarStep

\* The Auto-Switch button: setAutoSwitchEnabled(!autoSwitchEnabled).
setAutoSwitchEnabled ==
    /\ bar' = Render(Untimed([bar EXCEPT !.autoSwitchEnabled = ~@]), page.activeTabId)
    /\ UNCHANGED page
    /\ BarStep

\* A live interval fires.
Tick ==
    \E timer \in bar.timers :
        /\ bar.ticks < MaxTicks
        /\ onTabChange([bar EXCEPT !.ticked = [fired |-> TRUE, before |-> page.activeTabId],
                                   !.ticks = @ + 1,
                                   !.seen = @ \cup {callback(timer)}],
                       callback(timer))

\* A click on the button of a tab.
TabButton ==
    \E i \in 1..Len(bar.tabs) :
        onTabChange(Untimed(bar), bar.tabs[i].id[2])

\* The tabs query of Home fetches /api/tabs again and hands TabBar a new list.
RefetchTabs ==
    /\ handleGetTabs(Store).body.array # bar.tabs
    /\ bar' = Render(Untimed([bar EXCEPT !.tabs = handleGetTabs(Store).body.array]),
                     page.activeTabId)
    /\ UNCHANGED page
    /\ BarStep

TimerNext ==
    \/ setAutoSwitchEnabled \/ Tick \/ TabButton \/ RefetchTabs
    \/ PostTab \/ PatchTab \/ DeleteTab

TimerSpec == Init /\ [][TimerNext]_vars

\* The ids of the tabs of a list.
TabIds(list) == {list[i].id[2] : i \in 1..Len(list)}

\* The id of the tab after the tab with id tabId in list order, the first tab
\* after the last.
Following(list, tabId) ==
    LET i == CHOOSE k \in 1..Len(list) : list[k].id[2] = tabId
    IN  IF i = Len(list) THEN list[1].id[2] ELSE list[i + 1].id[2]

====
